---- MODULE Spec2Model ----
(***************************************************************************)
(* A model of sqlglot's recursive-descent Parser (sqlglot/parser.py).      *)
(*                                                                         *)
(* The parser object is the record `self`: its token array `_tokens`, its  *)
(* cursor `_index`, its function registry `functions`.  Every production   *)
(* of the grammar is an operator from a parser record to a parser record;  *)
(* the fields `n` (the value the production returns), `ok` (the value       *)
(* _match returns) and `e` (the exception raised, if any) carry the result. *)
(* A raised exception unwinds the Python call stack; here every operator    *)
(* passes a record whose `e` is set through unchanged.  `log` is a history  *)
(* of the cursor: one entry per _match call, per loop iteration, per       *)
(* recursive re-entry and per select-pipeline stage.                        *)
(***************************************************************************)
EXTENDS Integers, Sequences, FiniteSets, TLC

VARIABLES raw_tokens, functions, _chunks, _tokens, _index, expressions,
          pc, k, error, log

vars == <<raw_tokens, functions, _chunks, _tokens, _index, expressions,
          pc, k, error, log>>

---------------------------------------------------------------------------
(* Values *)

\* Python's None.
None == [type |-> "None"]

\* A token of the external tokenizer: kind and literal text (a sequence of
\* characters).  A token may itself be a leaf of the tree.
Token(token_type, text) == [type |-> "Token", token_type |-> token_type, text |-> text]

NoError == [msg |-> "", tok |-> None]

Lower == <<"a","b","c","d","e","f","g","h","i","j","k","l","m",
           "n","o","p","q","r","s","t","u","v","w","x","y","z">>
Upper == <<"A","B","C","D","E","F","G","H","I","J","K","L","M",
           "N","O","P","Q","R","S","T","U","V","W","X","Y","Z">>

\* str.upper(), character by character.
upper(text) ==
    [j \in 1..Len(text) |->
        IF \E c \in 1..Len(Lower) : Lower[c] = text[j]
        THEN Upper[CHOOSE c \in 1..Len(Lower) : Lower[c] = text[j]]
        ELSE text[j]]

\* Parser.FUNCTIONS: uppercase name -> builder.
FUNCTIONS ==
    (<<"A","V","G">> :> "Avg") @@ (<<"C","E","I","L">> :> "Ceil")
    @@ (<<"C","O","A","L","E","S","C","E">> :> "Coalesce")
    @@ (<<"F","I","R","S","T">> :> "First") @@ (<<"F","L","O","O","R">> :> "Floor")
    @@ (<<"L","A","S","T">> :> "Last") @@ (<<"I","F">> :> "If")
    @@ (<<"L","N">> :> "LN") @@ (<<"M","A","X">> :> "Max") @@ (<<"M","I","N">> :> "Min")
    @@ (<<"S","U","M">> :> "Sum") @@ (<<"R","A","N","K">> :> "Rank")
    @@ (<<"R","O","W","_","N","U","M","B","E","R">> :> "RowNumber")

\* Applying a registry builder to the argument list.  The built-in lambdas
\* index args; IF reads args[0..2] and raises IndexError on a shorter list.
\* Any other builder is a caller-supplied one, modelled as keeping args.
Build(builder, args) ==
    CASE builder = "Coalesce" -> [type |-> "Coalesce", expressions |-> args]
      [] builder = "If" ->
            IF Len(args) >= 3
            THEN [type |-> "If", condition |-> args[1], true |-> args[2], false |-> args[3]]
            ELSE [type |-> "IndexError"]
      [] builder \in {"Avg", "Ceil", "First", "Floor", "Last", "LN", "Max",
                      "Min", "Sum", "Rank", "RowNumber"} ->
            [type |-> builder, this |-> args[1]]
      [] OTHER -> [type |-> builder, expressions |-> args]

TYPE_TOKENS == {"BOOLEAN", "TINYINT", "SMALLINT", "INT", "BIGINT", "FLOAT",
                "DOUBLE", "DECIMAL", "CHAR", "VARCHAR", "TEXT", "BINARY", "JSON"}

COLUMN_TOKENS == {"VAR", "IDENTIFIER", "STAR"}

\* token_type of each binary expression class (sqlglot.expressions).
ClassOf(types) ==
    [t \in types |->
        CASE t = "AND" -> "And" [] t = "OR" -> "Or"
          [] t = "EQ" -> "EQ" [] t = "NEQ" -> "NEQ" [] t = "IS" -> "Is"
          [] t = "GT" -> "GT" [] t = "GTE" -> "GTE" [] t = "LT" -> "LT" [] t = "LTE" -> "LTE"
          [] t = "DASH" -> "Minus" [] t = "PLUS" -> "Plus"
          [] t = "SLASH" -> "Slash" [] t = "STAR" -> "Star"]

---------------------------------------------------------------------------
(* The cursor *)

\* A parser at the start of a chunk.
NewParser(tokens, fns) ==
    [_tokens |-> tokens, functions |-> fns, _index |-> 0,
     n |-> None, ok |-> FALSE, e |-> NoError, log |-> <<>>]

Failed(self) == self.e # NoError

Ret(self, node) == [self EXCEPT !.n = node]

Raise(self, msg, tok) ==
    IF Failed(self) THEN self ELSE [self EXCEPT !.e = [msg |-> msg, tok |-> tok], !.n = None]

Event(ev, fn, at, to, ok) == [ev |-> ev, fn |-> fn, at |-> at, to |-> to, ok |-> ok]

Note(self, ev) == IF Failed(self) THEN self ELSE [self EXCEPT !.log = Append(@, ev)]

\* History: a loop body of fn starts at self; its loop test started at `at`.
Iter(self, fn, at) == Note(self, Event("iter", fn, at, self._index, TRUE))

\* History: fn is re-entered at self from an activation entered at `at`.
Reenter(self, fn, at) == Note(self, Event("reenter", fn, at, self._index, TRUE))

\* History: stage fn, entered at `at` with node `this`, returns self.
Stage(self, fn, at, this) == Note(self, Event("stage", fn, at, self._index, self.n = this))

\* tokens[index] with Python's indexing: a negative index counts from the
\* end, an index out of range raises IndexError, which gives None.
_safe_get(tokens, index) ==
    IF index >= 0 /\ index < Len(tokens) THEN tokens[index + 1]
    ELSE IF index < 0 /\ -index <= Len(tokens) THEN tokens[Len(tokens) + index + 1]
    ELSE None

_prev(self) == _safe_get(self._tokens, self._index - 1)

_curr(self) == _safe_get(self._tokens, self._index)

_advance(self) == [self EXCEPT !._index = @ + 1]

\* A plausible slip: self._advance() run for every candidate type, before the test.
MatchAdvancesOnFailure(self, types) ==
    IF Failed(self) THEN [self EXCEPT !.ok = FALSE]
    ELSE IF _curr(self) = None
    THEN Note([self EXCEPT !.ok = FALSE], Event("match", "_match", self._index, self._index, FALSE))
    ELSE Note([_advance(self) EXCEPT !.ok = (_curr(self).token_type \in types)],
              Event("match", "_match", self._index, self._index + 1,
                    _curr(self).token_type \in types))

_match(self, types) ==
    IF Failed(self) THEN [self EXCEPT !.ok = FALSE]
    ELSE IF _curr(self) = None
    THEN Note([self EXCEPT !.ok = FALSE], Event("match", "_match", self._index, self._index, FALSE))
    ELSE IF _curr(self).token_type \in types
    THEN Note([_advance(self) EXCEPT !.ok = TRUE],
              Event("match", "_match", self._index, self._index + 1, TRUE))
    ELSE Note([self EXCEPT !.ok = FALSE], Event("match", "_match", self._index, self._index, FALSE))

---------------------------------------------------------------------------
(* The grammar *)

\* A plausible slip: the operands of Join exchanged.
JoinOperandsSwapped(expression, this, side, kind, on) ==
    [type |-> "Join", this |-> this, expression |-> expression,
     side |-> side, kind |-> kind, on |-> on]

\* exp.Join(this=expression, expression=this, side=side, kind=kind, on=on)
Join(expression, this, side, kind, on) ==
    [type |-> "Join", this |-> expression, expression |-> this,
     side |-> side, kind |-> kind, on |-> on]

\* A plausible slip: the registry consulted with the name as written.
FunctionNameAsWritten(this) == this.text

\* this.text.upper(), the key _parse_column looks up in self.functions.
FunctionName(this) == upper(this.text)

RECURSIVE _parse_statement(_), _parse_cte(_), _parse_select(_), _parse_from(_, _),
          _parse_join(_, _), _parse_table(_), _parse_where(_, _), _parse_group(_, _),
          _parse_having(_, _), _parse_order(_, _), _parse_union(_, _),
          _parse_expression(_), _parse_conjunction(_), _parse_equality(_),
          _parse_comparison(_), _parse_range(_), _parse_term(_), _parse_factor(_),
          _parse_unary(_), _parse_special(_), _parse_case(_), _parse_case_loop(_, _, _),
          _parse_count(_), _parse_cast(_), _parse_primary(_), _parse_column(_),
          _parse_brackets(_, _), _parse_window(_, _), _parse_alias(_, _),
          _parse_csv(_, _), _parse_csv_loop(_, _, _, _),
          _parse_tokens(_, _, _), _parse_tokens_loop(_, _, _, _, _), Call(_, _, _),
          TokensRightNested(_, _, _, _, _)

\* self.<parse>(...): every production is reached through this method lookup;
\* `this` is the node argument of the productions that take one.
Call(parse, self, this) ==
    CASE parse = "_parse_statement" -> _parse_statement(self)
      [] parse = "_parse_cte" -> _parse_cte(self)
      [] parse = "_parse_select" -> _parse_select(self)
      [] parse = "_parse_from" -> _parse_from(self, this)
      [] parse = "_parse_join" -> _parse_join(self, this)
      [] parse = "_parse_table" -> _parse_table(self)
      [] parse = "_parse_where" -> _parse_where(self, this)
      [] parse = "_parse_group" -> _parse_group(self, this)
      [] parse = "_parse_having" -> _parse_having(self, this)
      [] parse = "_parse_order" -> _parse_order(self, this)
      [] parse = "_parse_union" -> _parse_union(self, this)
      [] parse = "_parse_expression" -> _parse_expression(self)
      [] parse = "_parse_conjunction" -> _parse_conjunction(self)
      [] parse = "_parse_equality" -> _parse_equality(self)
      [] parse = "_parse_comparison" -> _parse_comparison(self)
      [] parse = "_parse_range" -> _parse_range(self)
      [] parse = "_parse_term" -> _parse_term(self)
      [] parse = "_parse_factor" -> _parse_factor(self)
      [] parse = "_parse_unary" -> _parse_unary(self)
      [] parse = "_parse_special" -> _parse_special(self)
      [] parse = "_parse_case" -> _parse_case(self)
      [] parse = "_parse_count" -> _parse_count(self)
      [] parse = "_parse_cast" -> _parse_cast(self)
      [] parse = "_parse_primary" -> _parse_primary(self)
      [] parse = "_parse_column" -> _parse_column(self)
      [] parse = "_parse_brackets" -> _parse_brackets(self, this)
      [] parse = "_parse_window" -> _parse_window(self, this)

_parse_statement(self) ==
    LET m == _match(self, {"WITH"})
        c == _parse_csv(m, "_parse_cte")
        r == Call("_parse_select", c, None)
    IN IF ~m.ok THEN Call("_parse_select", m, None)
       ELSE IF Failed(c) THEN c
       ELSE IF Failed(r) THEN r
       ELSE Ret(r, [type |-> "CTE", this |-> r.n, expressions |-> c.n])

_parse_cte(self) ==
    LET m1 == _match(self, {"IDENTIFIER", "VAR"})
        alias == _prev(m1)
        m2 == _match(m1, {"ALIAS"})
        t  == Call("_parse_table", m2, None)
    IN IF ~m1.ok THEN Raise(m1, "Expected alias after WITH", None)
       ELSE IF ~m2.ok THEN Raise(m2, "Expected AS after WITH", None)
       ELSE IF Failed(t) THEN t
       ELSE Ret(t, [type |-> "Alias", this |-> t.n, to |-> alias])

\* A plausible slip: WHERE threaded before FROM and JOIN.
SelectWhereBeforeFrom(self) ==
    LET m  == _match(self, {"SELECT"})
        c  == _parse_csv(m, "_parse_expression")
        s0 == Ret(c, [type |-> "Select", expressions |-> c.n])
        s1 == Call("_parse_where", s0, s0.n)
        s2 == Call("_parse_from", s1, s1.n)
        s3 == Call("_parse_join", s2, s2.n)
        s4 == Call("_parse_group", s3, s3.n)
        s5 == Call("_parse_having", s4, s4.n)
        s6 == Call("_parse_order", s5, s5.n)
    IN IF ~m.ok THEN Ret(m, None)
       ELSE IF Failed(c) THEN c
       ELSE IF Failed(s1) THEN s1
       ELSE IF Failed(s2) THEN s2
       ELSE IF Failed(s3) THEN s3
       ELSE IF Failed(s4) THEN s4
       ELSE IF Failed(s5) THEN s5
       ELSE IF Failed(s6) THEN s6
       ELSE Call("_parse_union", s6, s6.n)

_parse_select(self) ==
    LET m  == _match(self, {"SELECT"})
        c  == _parse_csv(m, "_parse_expression")
        s0 == Ret(c, [type |-> "Select", expressions |-> c.n])
        s1 == Call("_parse_from", s0, s0.n)
        s2 == Call("_parse_join", s1, s1.n)
        s3 == Call("_parse_where", s2, s2.n)
        s4 == Call("_parse_group", s3, s3.n)
        s5 == Call("_parse_having", s4, s4.n)
        s6 == Call("_parse_order", s5, s5.n)
    IN IF ~m.ok THEN Ret(m, None)
       ELSE IF Failed(c) THEN c
       ELSE IF Failed(s1) THEN s1
       ELSE IF Failed(s2) THEN s2
       ELSE IF Failed(s3) THEN s3
       ELSE IF Failed(s4) THEN s4
       ELSE IF Failed(s5) THEN s5
       ELSE IF Failed(s6) THEN s6
       ELSE Call("_parse_union", s6, s6.n)

_parse_from(self, this) ==
    LET m == _match(self, {"FROM"})
        t == Call("_parse_table", m, None)
    IN IF ~m.ok THEN Stage(Ret(m, this), "_parse_from", self._index, this)
       ELSE IF Failed(t) THEN t
       ELSE Stage(Ret(t, [type |-> "From", this |-> t.n, expression |-> this]),
                  "_parse_from", self._index, this)

_parse_join(self, this) ==
    LET m1   == _match(self, {"LEFT", "RIGHT", "FULL"})
        side == IF m1.ok THEN _prev(m1) ELSE None
        m2   == _match(m1, {"INNER", "OUTER", "CROSS"})
        kind == IF m2.ok THEN _prev(m2) ELSE None
        m3   == _match(m2, {"JOIN"})
        t    == Call("_parse_table", m3, None)
        m4   == _match(t, {"ON"})
        c    == Call("_parse_expression", m4, None)
        on   == IF m4.ok THEN c.n ELSE None
        x    == IF m4.ok THEN c ELSE m4
        r    == Call("_parse_join", Reenter(x, "_parse_join", self._index),
                            Join(t.n, this, side, kind, on))
    IN IF ~m3.ok THEN Stage(Ret(m3, this), "_parse_join", self._index, this)
       ELSE IF Failed(t) THEN t
       ELSE IF Failed(x) THEN x
       ELSE IF Failed(r) THEN r
       ELSE Stage(r, "_parse_join", self._index, this)

_parse_table(self) ==
    LET m  == _match(self, {"L_PAREN"})
        nested == Call("_parse_select", Reenter(m, "_parse_select", self._index), None)
        p2 == _match(nested, {"R_PAREN"})
        m1 == _match(m, {"VAR", "IDENTIFIER"})
        table1 == IF m1.ok THEN _prev(m1) ELSE None
        m2 == _match(m1, {"DOT"})
        m3 == _match(m2, {"VAR", "IDENTIFIER"})
    IN IF m.ok
       THEN IF Failed(nested) THEN nested
            ELSE IF ~p2.ok THEN Raise(p2, "Expecting )", None)
            ELSE _parse_alias(p2, nested.n)
       ELSE IF ~m2.ok
       THEN _parse_alias(m2, [type |-> "Table", this |-> table1, db |-> None])
       ELSE IF ~m3.ok THEN Raise(m3, "Expected table name", None)
       ELSE _parse_alias(m3, [type |-> "Table", this |-> _prev(m3), db |-> table1])

_parse_where(self, this) ==
    LET m == _match(self, {"WHERE"})
        c == Call("_parse_conjunction", m, None)
    IN IF ~m.ok THEN Stage(Ret(m, this), "_parse_where", self._index, this)
       ELSE IF Failed(c) THEN c
       ELSE Stage(Ret(c, [type |-> "Where", this |-> this, expression |-> c.n]),
                  "_parse_where", self._index, this)

_parse_group(self, this) ==
    LET m  == _match(self, {"GROUP"})
        m2 == _match(m, {"BY"})
        c  == _parse_csv(m2, "_parse_primary")
    IN IF ~m.ok THEN Stage(Ret(m, this), "_parse_group", self._index, this)
       ELSE IF ~m2.ok THEN Raise(m2, "Expecting BY", None)
       ELSE IF Failed(c) THEN c
       ELSE Stage(Ret(c, [type |-> "Group", this |-> this, expressions |-> c.n]),
                  "_parse_group", self._index, this)

_parse_having(self, this) ==
    LET m == _match(self, {"HAVING"})
        c == Call("_parse_conjunction", m, None)
    IN IF ~m.ok THEN Stage(Ret(m, this), "_parse_having", self._index, this)
       ELSE IF Failed(c) THEN c
       ELSE Stage(Ret(c, [type |-> "Having", this |-> this, expression |-> c.n]),
                  "_parse_having", self._index, this)

_parse_order(self, this) ==
    LET m  == _match(self, {"ORDER"})
        m2 == _match(m, {"BY"})
        c  == _parse_csv(m2, "_parse_primary")
        d  == _match(c, {"DESC"})
    IN IF ~m.ok THEN Stage(Ret(m, this), "_parse_order", self._index, this)
       ELSE IF ~m2.ok THEN Raise(m2, "Expecting BY", None)
       ELSE IF Failed(c) THEN c
       ELSE Stage(Ret(d, [type |-> "Order", this |-> this, expressions |-> c.n,
                          desc |-> d.ok]),
                  "_parse_order", self._index, this)

_parse_union(self, this) ==
    LET m == _match(self, {"UNION"})
        a == _match(m, {"ALL"})
        s == Call("_parse_select", Reenter(a, "_parse_select", self._index), None)
    IN IF ~m.ok THEN Stage(Ret(m, this), "_parse_union", self._index, this)
       ELSE IF Failed(s) THEN s
       ELSE Stage(Ret(s, [type |-> "Union", this |-> this, expression |-> s.n,
                          distinct |-> ~a.ok]),
                  "_parse_union", self._index, this)

_parse_expression(self) ==
    LET c == Call("_parse_conjunction", self, None)
        w == Call("_parse_window", c, c.n)
    IN IF Failed(c) THEN c
       ELSE IF Failed(w) THEN w
       ELSE _parse_alias(w, w.n)

_parse_conjunction(self) == _parse_tokens(self, "_parse_equality", ClassOf({"AND", "OR"}))

_parse_equality(self) == _parse_tokens(self, "_parse_comparison", ClassOf({"EQ", "NEQ", "IS"}))

_parse_comparison(self) ==
    _parse_tokens(self, "_parse_range", ClassOf({"GT", "GTE", "LT", "LTE"}))

_parse_range(self) ==
    LET t  == Call("_parse_term", self, None)
        m1 == _match(t, {"IN"})
        m2 == _match(m1, {"L_PAREN"})
        c  == _parse_csv(m2, "_parse_primary")
        m3 == _match(c, {"R_PAREN"})
        b  == _match(m1, {"BETWEEN"})
        lo == Call("_parse_primary", b, None)
        a  == _match(lo, {"AND"})
        hi == Call("_parse_primary", a, None)
    IN IF Failed(t) THEN t
       ELSE IF m1.ok
       THEN IF ~m2.ok THEN Raise(m2, "Expected ( after IN", None)
            ELSE IF Failed(c) THEN c
            ELSE IF ~m3.ok THEN Raise(m3, "Expected ) after IN", None)
            ELSE Ret(m3, [type |-> "In", this |-> t.n, expressions |-> c.n])
       ELSE IF b.ok
       THEN IF Failed(lo) THEN lo
            ELSE IF Failed(hi) THEN hi
            ELSE Ret(hi, [type |-> "Between", this |-> t.n, low |-> lo.n, high |-> hi.n])
       ELSE Ret(b, t.n)

_parse_term(self) == _parse_tokens(self, "_parse_factor", ClassOf({"DASH", "PLUS"}))

_parse_factor(self) == _parse_tokens(self, "_parse_unary", ClassOf({"SLASH", "STAR"}))

_parse_unary(self) ==
    LET m1 == _match(self, {"NOT"})
        u1 == Call("_parse_unary", Reenter(m1, "_parse_unary", self._index), None)
        m2 == _match(m1, {"DASH"})
        u2 == Call("_parse_unary", Reenter(m2, "_parse_unary", self._index), None)
    IN IF m1.ok
       THEN IF Failed(u1) THEN u1 ELSE Ret(u1, [type |-> "Not", this |-> u1.n])
       ELSE IF m2.ok
       THEN IF Failed(u2) THEN u2 ELSE Ret(u2, [type |-> "Neg", this |-> u2.n])
       ELSE Call("_parse_special", m2, None)

_parse_special(self) ==
    LET m1 == _match(self, {"CAST"})
        m2 == _match(m1, {"CASE"})
        m3 == _match(m2, {"COUNT"})
    IN IF m1.ok THEN Call("_parse_cast", m1, None)
       ELSE IF m2.ok THEN Call("_parse_case", m2, None)
       ELSE IF m3.ok THEN Call("_parse_count", m3, None)
       ELSE Call("_parse_primary", m3, None)

\* while self._match(TokenType.WHEN): ...; `at` is where the loop test starts.
_parse_case_loop(self, ifs, at) ==
    LET m  == _match(self, {"WHEN"})
        c  == Call("_parse_expression", Iter(m, "_parse_case", at), None)
        t  == _match(c, {"THEN"})
        th == Call("_parse_expression", t, None)
    IN IF ~m.ok THEN Ret(m, ifs)
       ELSE IF Failed(c) THEN c
       ELSE IF Failed(th) THEN th
       ELSE _parse_case_loop(th, Append(ifs, [type |-> "If", condition |-> c.n,
                                              true |-> th.n]),
                             th._index)

_parse_case(self) ==
    LET w  == _parse_case_loop(self, <<>>, self._index)
        m1 == _match(w, {"ELSE"})
        d  == Call("_parse_expression", m1, None)
        x  == IF m1.ok THEN d ELSE m1
        m2 == _match(x, {"END"})
    IN IF Failed(w) THEN w
       ELSE IF Failed(x) THEN x
       ELSE IF ~m2.ok THEN Raise(m2, "Expected END after CASE", None)
       ELSE Ret(m2, [type |-> "Case", ifs |-> w.n,
                     default |-> IF m1.ok THEN d.n ELSE None])

_parse_count(self) ==
    LET m1 == _match(self, {"L_PAREN"})
        d  == _match(m1, {"DISTINCT"})
        c  == Call("_parse_conjunction", d, None)
        m2 == _match(c, {"R_PAREN"})
    IN IF ~m1.ok THEN Raise(m1, "Expected ( after COUNT", None)
       ELSE IF Failed(c) THEN c
       ELSE IF ~m2.ok THEN Raise(m2, "Expected ) after COUNT", None)
       ELSE Ret(m2, [type |-> "Count", this |-> c.n, distinct |-> d.ok])

_parse_cast(self) ==
    LET m1 == _match(self, {"L_PAREN"})
        c  == Call("_parse_conjunction", m1, None)
        m2 == _match(c, {"ALIAS"})
        m3 == _match(m2, TYPE_TOKENS)
        m4 == _match(m3, {"R_PAREN"})
    IN IF ~m1.ok THEN Raise(m1, "Expected ( after CAST", None)
       ELSE IF Failed(c) THEN c
       ELSE IF ~m2.ok THEN Raise(m2, "Expected AS after CAST", None)
       ELSE IF ~m3.ok THEN Raise(m3, "Expected type after CAST", None)
       ELSE IF ~m4.ok THEN Raise(m4, "Expected ) after CAST", None)
       ELSE Ret(m4, [type |-> "Cast", this |-> c.n, to |-> _prev(m3)])

_parse_primary(self) ==
    LET m1 == _match(self, {"STRING", "NUMBER", "STAR", "NULL"})
        m2 == _match(m1, {"L_PAREN"})
        x  == Call("_parse_expression", Reenter(m2, "_parse_expression", self._index), None)
        m3 == _match(x, {"R_PAREN"})
    IN IF m1.ok THEN Ret(m1, _prev(m1))
       ELSE IF m2.ok
       THEN IF Failed(x) THEN x
            ELSE IF ~m3.ok THEN Raise(m3, "Expecting )", None)
            ELSE Ret(m3, [type |-> "Paren", this |-> x.n])
       ELSE Call("_parse_column", m2, None)

_parse_column(self) ==
    LET m0 == _match(self, {"VAR", "IDENTIFIER"})
        this == _prev(m0)
        m1 == _match(m0, {"L_PAREN"})
        name == FunctionName(this)
        a  == _parse_csv(m1, "_parse_expression")
        function == Build(self.functions[name], a.n)
        m2 == _match(a, {"R_PAREN"})
        d1 == _match(m1, {"DOT"})
        c1 == _match(d1, COLUMN_TOKENS)
        d2 == _match(c1, {"DOT"})
        c2 == _match(d2, COLUMN_TOKENS)
    IN IF ~m0.ok THEN Ret(m0, None)
       ELSE IF m1.ok
       THEN IF this.token_type = "IDENTIFIER" THEN Raise(m1, "Unexpected (", None)
            ELSE IF name \notin DOMAIN self.functions
            THEN Raise(m1, "Unrecognized function name", this)
            ELSE IF Failed(a) THEN a
            ELSE IF function.type = "IndexError" THEN Raise(a, "IndexError", None)
            ELSE IF ~m2.ok THEN Raise(m2, "Expected ) after function", this)
            ELSE Ret(m2, function)
       ELSE IF ~d1.ok
       THEN Call("_parse_brackets", d1, [type |-> "Column", this |-> this, db |-> None,
                                 table |-> None])
       ELSE IF ~c1.ok THEN Raise(c1, "Expected column name", None)
       ELSE IF ~d2.ok
       THEN Call("_parse_brackets", d2, [type |-> "Column", this |-> _prev(c1), db |-> None,
                                 table |-> this])
       ELSE IF ~c2.ok THEN Raise(c2, "Expected column name", None)
       ELSE Call("_parse_brackets", c2, [type |-> "Column", this |-> _prev(c2), db |-> this,
                                 table |-> _prev(c1)])

_parse_brackets(self, this) ==
    LET m1 == _match(self, {"L_BRACKET"})
        c  == _parse_csv(m1, "_parse_primary")
        m2 == _match(c, {"R_BRACKET"})
    IN IF ~m1.ok THEN Ret(m1, this)
       ELSE IF Failed(c) THEN c
       ELSE IF ~m2.ok THEN Raise(m2, "Expected ] after", this)
       ELSE Ret(m2, [type |-> "Bracket", this |-> this, expressions |-> c.n])

_parse_window(self, this) ==
    LET m1 == _match(self, {"OVER"})
        m2 == _match(m1, {"L_PAREN"})
        p  == _match(m2, {"PARTITION"})
        b  == _match(p, {"BY"})
        c  == _parse_csv(b, "_parse_primary")
        x  == IF p.ok THEN c ELSE p
        o  == Call("_parse_order", x, None)
        m3 == _match(o, {"R_PAREN"})
    IN IF ~m1.ok THEN Ret(m1, this)
       ELSE IF ~m2.ok THEN Raise(m2, "Expecting ( after OVER", None)
       ELSE IF p.ok /\ ~b.ok THEN Raise(b, "Expecting BY after PARTITION", None)
       ELSE IF Failed(x) THEN x
       ELSE IF Failed(o) THEN o
       ELSE IF ~m3.ok THEN Raise(m3, "Expecting )", None)
       ELSE Ret(m3, [type |-> "Window", this |-> this,
                     partition |-> IF p.ok THEN [type |-> "List", items |-> c.n] ELSE None,
                     order |-> o.n])

_parse_alias(self, this) ==
    LET m1 == _match(self, {"ALIAS"})
        m2 == _match(m1, {"IDENTIFIER", "VAR"})
    IN IF m2.ok THEN Ret(m2, [type |-> "Alias", this |-> this, to |-> _prev(m2)])
       ELSE Ret(m2, this)

\* while self._match(TokenType.COMMA): items.append(parse())
_parse_csv_loop(self, parse, items, at) ==
    LET m == _match(self, {"COMMA"})
        p == Call(parse, Iter(m, "_parse_csv", at), None)
    IN IF ~m.ok THEN Ret(m, items)
       ELSE IF Failed(p) THEN p
       ELSE _parse_csv_loop(p, parse, Append(items, p.n), p._index)

_parse_csv(self, parse) ==
    LET p == Call(parse, self, None)
    IN IF Failed(p) THEN p ELSE _parse_csv_loop(p, parse, <<p.n>>, p._index)

\* A plausible slip: the rest of the chain parsed as the right operand.
TokensRightNested(self, parse, classes, this, at) ==
    LET m == _match(self, DOMAIN classes)
        p == Call(parse, Iter(m, "_parse_tokens", at), None)
        r == TokensRightNested(p, parse, classes, p.n, p._index)
    IN IF ~m.ok THEN Ret(m, this)
       ELSE IF Failed(p) THEN p
       ELSE IF Failed(r) THEN r
       ELSE Ret(r, [type |-> classes[_prev(m).token_type], this |-> this,
                    expression |-> r.n])

\* while self._match(*expressions): this = expressions[...](this=this, expression=parse())
_parse_tokens_loop(self, parse, classes, this, at) ==
    LET m == _match(self, DOMAIN classes)
        p == Call(parse, Iter(m, "_parse_tokens", at), None)
    IN IF ~m.ok THEN Ret(m, this)
       ELSE IF Failed(p) THEN p
       ELSE _parse_tokens_loop(p, parse, classes,
                               [type |-> classes[_prev(m).token_type], this |-> this,
                                expression |-> p.n],
                               p._index)

_parse_tokens(self, parse, classes) ==
    LET p == Call(parse, self, None)
    IN IF Failed(p) THEN p ELSE _parse_tokens_loop(p, parse, classes, p.n, p._index)

---------------------------------------------------------------------------
(* Inputs: the token sequences parse() is called with *)

MaxLen == 3
MaxJoins == 3
MaxOperands == 4
MaxArgs == 2
MaxStatements == 3

\* A keyword or punctuation token; the parser reads only its kind.
Kw(token_type) == Token(token_type, <<>>)

Var(c) == Token("VAR", <<c>>)

Names == <<"a", "b", "c", "d", "e", "f", "g", "h">>

RECURSIVE Flatten(_)
Flatten(seqs) == IF seqs = <<>> THEN <<>> ELSE Head(seqs) \o Flatten(Tail(seqs))

SelectA == <<Kw("SELECT"), Var("a")>>

\* Every sequence of at most MaxLen tokens over a small alphabet.
Alphabet ==
    {Kw("SELECT"), Var("a"), Kw("COMMA"), Kw("L_PAREN"), Kw("R_PAREN"), Kw("DASH"),
     Kw("FROM"), Kw("JOIN"), Kw("LEFT"), Kw("UNION"), Kw("WITH"), Kw("ALIAS"),
     Kw("SEMICOLON"), Kw("CASE"), Kw("WHEN"), Kw("END")}

GenericInputs == UNION {[1..n -> Alphabet] : n \in 0..MaxLen}

\* SELECT a followed by optional clauses in any order.
Clauses ==
    << <<Kw("FROM"), Var("t")>>, <<Kw("WHERE"), Var("x")>>,
       <<Kw("GROUP"), Kw("BY"), Var("y")>>, <<Kw("HAVING"), Var("z")>>,
       <<Kw("ORDER"), Kw("BY"), Var("w")>> >>

ClauseOrders ==
    UNION {{p \in [1..n -> 1..Len(Clauses)] : \A i, j \in 1..n : i # j => p[i] # p[j]}
           : n \in 0..Len(Clauses)}

InOrder(p) == \A i, j \in 1..Len(p) : i < j => p[i] < p[j]

ClauseStatement(p) == SelectA \o Flatten([j \in 1..Len(p) |-> Clauses[p[j]]])

ClauseInputs == {ClauseStatement(p) : p \in ClauseOrders}

\* SELECT a FROM a JOIN b ... : one to MaxJoins joins.
JoinKeywords ==
    {<<Kw("JOIN")>>, <<Kw("LEFT"), Kw("JOIN")>>, <<Kw("FULL"), Kw("OUTER"), Kw("JOIN")>>}

JoinConditions == {<<>>, <<Kw("ON"), Var("x")>>}

JoinChains == UNION {[1..n -> JoinKeywords \X JoinConditions] : n \in 1..MaxJoins}

JoinStatement(js) ==
    SelectA \o <<Kw("FROM"), Var(Names[1])>>
    \o Flatten([j \in 1..Len(js) |-> js[j][1] \o <<Var(Names[j + 1])>> \o js[j][2]])

JoinInputs == {JoinStatement(js) : js \in JoinChains}

\* SELECT a op b op c ... : the operators of one binary tier.
Tiers ==
    {{"AND", "OR"}, {"EQ", "NEQ", "IS"}, {"GT", "GTE", "LT", "LTE"},
     {"DASH", "PLUS"}, {"SLASH", "STAR"}}

OperatorChains == UNION {[1..n -> T] : T \in Tiers, n \in 1..(MaxOperands - 1)}

ChainStatement(ops) ==
    <<Kw("SELECT"), Var(Names[1])>>
    \o Flatten([j \in 1..Len(ops) |-> <<Kw(ops[j]), Var(Names[j + 1])>>])

ChainInputs == {ChainStatement(ops) : ops \in OperatorChains}

\* SELECT name ( x , ... ) : a name followed by an argument list.
Written == {<<"s","u","m">>, <<"S","U","M">>, <<"S","u","m">>, <<"m","a","x">>,
            <<"n","o","f","n">>, <<"m","y","f","n">>, <<"M","Y","F","N">>}

FunctionNames == {Token(t, w) : t \in {"VAR", "IDENTIFIER"}, w \in Written}

FunctionStatement(name, nargs) ==
    <<Kw("SELECT"), name, Kw("L_PAREN"), Var(Names[1])>>
    \o Flatten([j \in 1..(nargs - 1) |-> <<Kw("COMMA"), Var(Names[j + 1])>>])
    \o <<Kw("R_PAREN")>>

FunctionInputs == {FunctionStatement(nm, n) : nm \in FunctionNames, n \in 1..MaxArgs}

\* The registry entries a caller passes as opts['functions'].
CallerFunctions == {<<>>, <<"M","Y","F","N">> :> "MyFn"}

\* Complete statements, and each of them followed by one more token.
Complete ==
    {ClauseStatement(p) : p \in {q \in ClauseOrders : InOrder(q)}}
    \cup {JoinStatement(js) : js \in {q \in JoinChains : Len(q) = 1}}
    \cup {SelectA \o <<Kw("UNION"), Kw("SELECT"), Var("b")>>}

StrayTokens ==
    {Kw("ALIAS"), Var("s"), Token("IDENTIFIER", <<"s">>), Kw("LEFT"), Kw("RIGHT"),
     Kw("FULL"), Kw("INNER"), Kw("OUTER"), Kw("CROSS"), Kw("DESC"), Kw("UNION"),
     Kw("FROM"), Kw("R_PAREN"), Token("NUMBER", <<"1">>)}

StrayInputs == {s \o <<t>> : s \in Complete, t \in StrayTokens}

\* Two to MaxStatements statements separated by semicolons.
Statements == {SelectA, <<Kw("SELECT"), Var("b")>>, SelectA \o <<Kw("FROM"), Var("t")>>}

StatementLists == UNION {[1..n -> Statements] : n \in 2..MaxStatements}

RECURSIVE Joined(_)
Joined(ss) ==
    IF Len(ss) = 1 THEN ss[1] ELSE ss[1] \o <<Kw("SEMICOLON")>> \o Joined(Tail(ss))

MultiInputs == {Joined(ss) : ss \in StatementLists}

\* Statements that break off where the grammar requires an operand.
MalformedInputs ==
    {<<Kw("SELECT")>>, SelectA \o <<Kw("FROM")>>, SelectA \o <<Kw("UNION")>>,
     SelectA \o <<Kw("PLUS")>>,
     <<Kw("WITH"), Var("x"), Kw("ALIAS"), Kw("L_PAREN")>> \o SelectA \o <<Kw("R_PAREN")>>}

\* Well-formed statements that reach the nested and looping productions.
RichInputs ==
    {<<Kw("SELECT"), Var("a"), Kw("COMMA"), Kw("L_PAREN"), Kw("DASH"), Kw("NOT"), Var("b"),
       Kw("R_PAREN"), Kw("UNION"), Kw("ALL"), Kw("SELECT"), Kw("STAR")>>,
     <<Kw("SELECT"), Kw("CASE"), Kw("WHEN"), Var("a"), Kw("THEN"), Token("NUMBER", <<"1">>),
       Kw("WHEN"), Var("b"), Kw("THEN"), Token("NUMBER", <<"2">>), Kw("ELSE"), Kw("NULL"),
       Kw("END"), Kw("ALIAS"), Var("c")>>,
     <<Kw("SELECT"), Kw("CAST"), Kw("L_PAREN"), Var("a"), Kw("ALIAS"), Kw("INT"),
       Kw("R_PAREN"), Kw("COMMA"), Kw("COUNT"), Kw("L_PAREN"), Kw("DISTINCT"), Var("b"),
       Kw("R_PAREN")>>,
     <<Kw("SELECT"), Var("a"), Kw("DOT"), Var("b"), Kw("DOT"), Var("c"), Kw("L_BRACKET"),
       Token("NUMBER", <<"1">>), Kw("COMMA"), Token("NUMBER", <<"2">>), Kw("R_BRACKET"),
       Kw("FROM"), Var("d"), Kw("DOT"), Var("t"), Var("u")>>,
     <<Kw("SELECT"), Var("a"), Kw("FROM"), Kw("L_PAREN"), Kw("SELECT"), Var("b"),
       Kw("FROM"), Var("t"), Kw("R_PAREN"), Kw("ALIAS"), Var("s"), Kw("WHERE"), Var("a"),
       Kw("IN"), Kw("L_PAREN"), Token("NUMBER", <<"1">>), Kw("COMMA"),
       Token("NUMBER", <<"2">>), Kw("R_PAREN"), Kw("AND"), Var("b"), Kw("BETWEEN"),
       Token("NUMBER", <<"1">>), Kw("AND"), Token("NUMBER", <<"9">>)>>,
     <<Kw("SELECT"), Token("VAR", <<"r","a","n","k">>), Kw("L_PAREN"), Var("a"),
       Kw("R_PAREN"), Kw("OVER"), Kw("L_PAREN"), Kw("PARTITION"), Kw("BY"), Var("b"),
       Kw("ORDER"), Kw("BY"), Var("c"), Kw("DESC"), Kw("R_PAREN")>>,
     <<Kw("WITH"), Var("x"), Kw("ALIAS"), Kw("L_PAREN"), Kw("SELECT"), Var("a"),
       Kw("R_PAREN"), Kw("COMMA"), Var("y"), Kw("ALIAS"), Kw("L_PAREN"), Kw("SELECT"),
       Var("b"), Kw("R_PAREN"), Kw("SELECT"), Var("a"), Kw("FROM"), Var("x"),
       Kw("CROSS"), Kw("JOIN"), Var("y"), Kw("ON"), Var("a"), Kw("EQ"), Var("b")>>,
     <<Kw("SELECT"), Token("VAR", <<"i","f">>), Kw("L_PAREN"), Var("a"), Kw("COMMA"),
       Var("b"), Kw("R_PAREN")>>}

Inputs ==
    RichInputs \cup GenericInputs \cup ClauseInputs \cup JoinInputs \cup ChainInputs \cup FunctionInputs
    \cup Complete \cup StrayInputs \cup MultiInputs \cup MalformedInputs

---------------------------------------------------------------------------
(* The parser object and parse() *)

\* Parser(functions=opts): the registry merged, then reset().
Init ==
    /\ functions \in {opts @@ FUNCTIONS : opts \in CallerFunctions}
    /\ raw_tokens = <<>>
    /\ _tokens = <<>>
    /\ _chunks = << <<>> >>
    /\ _index = 0
    /\ expressions = <<>>
    /\ pc = "idle"
    /\ k = 0
    /\ error = NoError
    /\ log = <<>>

\* parse(raw_tokens) is called: reset().  A parser built with caller
\* functions is called on the function-call inputs only.
parse ==
    /\ pc = "idle"
    /\ \E rt \in (IF functions = FUNCTIONS THEN Inputs ELSE FunctionInputs) :
          raw_tokens' = rt
    /\ _tokens' = <<>>
    /\ _chunks' = << <<>> >>
    /\ _index' = 0
    /\ k' = 1
    /\ pc' = "split"
    /\ UNCHANGED <<functions, expressions, error, log>>

\* The body of `for token in raw_tokens`.
SplitToken(chunks, token) ==
    LET opened == IF token.token_type = "SEMICOLON" THEN Append(chunks, <<>>) ELSE chunks
    IN [opened EXCEPT ![Len(opened)] = Append(@, token)]

\* One iteration of the splitter loop; after the last, the chunk loop starts.
split ==
    /\ pc = "split"
    /\ IF k <= Len(raw_tokens)
       THEN /\ _chunks' = SplitToken(_chunks, raw_tokens[k])
            /\ k' = k + 1
            /\ UNCHANGED <<pc, expressions>>
       ELSE /\ expressions' = <<>>
            /\ k' = 1
            /\ pc' = "chunks"
            /\ UNCHANGED _chunks
    /\ UNCHANGED <<raw_tokens, functions, _tokens, _index, error, log>>

\* for tokens in self._chunks: the cursor reset, the chunk loaded; or,
\* after the last chunk, return expressions.
chunk ==
    /\ pc = "chunks"
    /\ IF k <= Len(_chunks)
       THEN /\ _index' = 0
            /\ _tokens' = _chunks[k]
            /\ log' = <<>>
            /\ pc' = "statement"
       ELSE /\ pc' = "returned"
            /\ UNCHANGED <<_index, _tokens, log>>
    /\ UNCHANGED <<raw_tokens, functions, _chunks, expressions, k, error>>

\* if self._index < len(self._tokens): raise
Leftover(self) == self._index < Len(self._tokens)

\* expressions.append(self._parse_statement()), then the check for leftovers.
statement ==
    /\ pc = "statement"
    /\ \E r \in {Call("_parse_statement", NewParser(_tokens, functions), None)} :
          /\ _index' = r._index
          /\ log' = r.log
          /\ IF Failed(r)
             THEN /\ error' = r.e
                  /\ pc' = "raised"
                  /\ UNCHANGED <<expressions, k>>
             ELSE IF Leftover(r)
             THEN /\ error' = [msg |-> "Invalid expression", tok |-> _curr(r)]
                  /\ pc' = "raised"
                  /\ expressions' = Append(expressions, r.n)
                  /\ UNCHANGED k
             ELSE /\ expressions' = Append(expressions, r.n)
                  /\ k' = k + 1
                  /\ pc' = "chunks"
                  /\ UNCHANGED error
    /\ UNCHANGED <<raw_tokens, functions, _chunks, _tokens>>

Next == parse \/ split \/ chunk \/ statement

Spec == Init /\ [][Next]_vars

Done == pc \in {"returned", "raised"}

---------------------------------------------------------------------------
(* Properties *)

\* The root and the outcome of parse() on `tokens` alone, as one chunk.
Alone(tokens) == Call("_parse_statement", NewParser(tokens, functions), None)

Accepted(tokens) == ~Failed(Alone(tokens)) /\ ~Leftover(Alone(tokens))

Column(c) == [type |-> "Column", this |-> Var(c), db |-> None, table |-> None]

Table(c) == [type |-> "Table", this |-> Var(c), db |-> None]

SelectOf(projections) == [type |-> "Select", expressions |-> projections]

Unconsumed == pc = "raised" /\ error.msg = "Invalid expression"

\* C1: a complete statement that parse accepts, followed by one stray token,
\* fails with the unconsumed-input error; the token is never absorbed.
StrayTokenRejected ==
    (Done /\ raw_tokens \in StrayInputs) =>
        \A s \in Complete : \A t \in StrayTokens :
            (raw_tokens = s \o <<t>> /\ Accepted(s)) => Unconsumed

\* C2: n >= 2 statements separated by semicolons give one root per statement,
\* in order, each the root parse returns for that statement alone.
OneRootPerStatement ==
    (Done /\ raw_tokens \in MultiInputs) =>
        \A ss \in StatementLists :
            raw_tokens = Joined(ss) =>
                /\ pc = "returned"
                /\ Len(expressions) = Len(ss)
                /\ \A j \in 1..Len(ss) : expressions[j] = Alone(ss[j]).n

BinaryClasses ==
    {"And", "Or", "EQ", "NEQ", "Is", "GT", "GTE", "LT", "LTE", "Minus", "Plus",
     "Slash", "Star"}

RECURSIVE Whole(_)
\* No operand the grammar requires is absent, anywhere in the tree.
Whole(node) ==
    /\ node # None
    /\ CASE node.type \in {"From", "Where", "Having", "Union"} \cup BinaryClasses ->
                Whole(node.this) /\ Whole(node.expression)
         [] node.type \in {"Select", "Coalesce"} ->
                \A j \in 1..Len(node.expressions) : Whole(node.expressions[j])
         [] node.type = "Join" ->
                Whole(node.this) /\ Whole(node.expression)
                /\ (node.on = None \/ Whole(node.on))
         [] node.type \in {"Group", "CTE", "Bracket", "In"} ->
                Whole(node.this)
                /\ \A j \in 1..Len(node.expressions) : Whole(node.expressions[j])
         [] node.type = "Order" ->
                \A j \in 1..Len(node.expressions) : Whole(node.expressions[j])
         [] node.type \in {"Table", "Column", "Not", "Neg", "Paren", "Count", "Cast",
                           "Avg", "Ceil", "First", "Floor", "Last", "LN", "Max", "Min",
                           "Sum", "Rank", "RowNumber"} ->
                Whole(node.this)
         [] node.type = "Alias" -> Whole(node.this) /\ Whole(node.to)
         [] node.type = "Between" ->
                Whole(node.this) /\ Whole(node.low) /\ Whole(node.high)
         [] node.type = "If" -> Whole(node.condition) /\ Whole(node.true)
         [] node.type = "Case" ->
                /\ \A j \in 1..Len(node.ifs) : Whole(node.ifs[j])
                /\ (node.default = None \/ Whole(node.default))
         [] node.type = "Window" -> Whole(node.this)
         [] OTHER -> TRUE

\* C3: a non-empty input without semicolon either fails or returns exactly one
\* root, a node with no required operand absent.
NoPartialTree ==
    (pc = "returned" /\ raw_tokens # <<>>
     /\ \A j \in 1..Len(raw_tokens) : raw_tokens[j].token_type # "SEMICOLON")
        => (Len(expressions) = 1 /\ Whole(expressions[1]))

\* C4: SELECT a followed by any of FROM, WHERE, GROUP BY, HAVING, ORDER BY parses
\* when the clauses present are in that order, and fails when two are not.
ClauseOrderFixed ==
    (Done /\ raw_tokens \in ClauseInputs) =>
        \A p \in ClauseOrders :
            raw_tokens = ClauseStatement(p) =>
                IF InOrder(p)
                THEN pc = "returned" /\ Len(expressions) = 1 /\ expressions[1] # None
                ELSE pc = "raised"

ClauseOrderWitness ==
    /\ pc = "raised"
    /\ raw_tokens = ClauseStatement(<<1, 3, 2, 4, 5>>)
    /\ error.tok = Kw("WHERE")

\* How each written name reads in upper case; "" when the registry of this
\* parser has no builder under that name.
ExpectedBuilder(text) ==
    CASE text \in {<<"s","u","m">>, <<"S","U","M">>, <<"S","u","m">>} -> "Sum"
      [] text = <<"m","a","x">> -> "Max"
      [] text \in {<<"m","y","f","n">>, <<"M","Y","F","N">>} ->
            IF <<"M","Y","F","N">> \in DOMAIN functions
            THEN functions[<<"M","Y","F","N">>] ELSE ""
      [] OTHER -> ""

ExpectedCall(builder, nargs) ==
    IF builder \in {"Sum", "Max"} THEN [type |-> builder, this |-> Column(Names[1])]
    ELSE [type |-> builder, expressions |-> [j \in 1..nargs |-> Column(Names[j])]]

\* C5: name ( args ) in a column position: an unquoted registered name gives the
\* builder's node over the arguments, an unquoted unregistered name fails naming
\* the token, a quoted name fails whatever the registry holds.
FunctionDispatch ==
    (Done /\ raw_tokens \in FunctionInputs) =>
        \A nm \in FunctionNames : \A n \in 1..MaxArgs :
            raw_tokens = FunctionStatement(nm, n) =>
                IF nm.token_type = "IDENTIFIER"
                THEN pc = "raised" /\ error.msg = "Unexpected ("
                ELSE IF ExpectedBuilder(nm.text) # ""
                THEN /\ pc = "returned"
                     /\ expressions
                            = <<SelectOf(<<ExpectedCall(ExpectedBuilder(nm.text), n)>>)>>
                ELSE /\ pc = "raised"
                     /\ error = [msg |-> "Unrecognized function name", tok |-> nm]

FunctionDispatchWitness ==
    /\ pc = "returned"
    /\ raw_tokens = FunctionStatement(Token("VAR", <<"s","u","m">>), 1)
    /\ expressions = <<SelectOf(<<[type |-> "Sum", this |-> Column("a")]>>)>>

RECURSIVE LeftNested(_, _)
\* ((e1 op1 e2) op2 e3) ... : the first n operators applied left to right.
LeftNested(ops, n) ==
    IF n = 0 THEN Column(Names[1])
    ELSE [type |-> ClassOf({ops[n]})[ops[n]], this |-> LeftNested(ops, n - 1),
          expression |-> Column(Names[n + 1])]

\* C6: a chain of operators of one binary tier parses left-nested.
LeftAssociative ==
    (Done /\ raw_tokens \in ChainInputs) =>
        \A ops \in OperatorChains :
            raw_tokens = ChainStatement(ops) =>
                /\ pc = "returned"
                /\ expressions = <<SelectOf(<<LeftNested(ops, Len(ops))>>)>>

LeftAssociativeWitness ==
    /\ pc = "returned"
    /\ raw_tokens = ChainStatement(<<"DASH", "DASH">>)
    /\ expressions[1].expressions[1].type = "Minus"
    /\ expressions[1].expressions[1].this.type = "Minus"
    /\ expressions[1].expressions[1].expression = Column("c")

KeywordOrNone(keywords, types) ==
    IF \E j \in 1..Len(keywords) : keywords[j].token_type \in types
    THEN keywords[CHOOSE j \in 1..Len(keywords) : keywords[j].token_type \in types]
    ELSE None

RECURSIVE LeftNestedJoin(_, _)
\* The tree for the first n joins of js: Join(this = tn, expression = the tree
\* for the first n - 1), down to From over t0.
LeftNestedJoin(js, n) ==
    IF n = 0
    THEN [type |-> "From", this |-> Table(Names[1]),
          expression |-> SelectOf(<<Column("a")>>)]
    ELSE [type |-> "Join", this |-> Table(Names[n + 1]),
          expression |-> LeftNestedJoin(js, n - 1),
          side |-> KeywordOrNone(js[n][1], {"LEFT", "RIGHT", "FULL"}),
          kind |-> KeywordOrNone(js[n][1], {"INNER", "OUTER", "CROSS"}),
          on |-> IF js[n][2] = <<>> THEN None ELSE Column("x")]

\* C7: FROM t0 JOIN t1 ... JOIN tn parses to a Join whose `this` is tn and whose
\* `expression` is the Join for t0..t(n-1), the innermost over the From node.
JoinsLeftNested ==
    (Done /\ raw_tokens \in JoinInputs) =>
        \A js \in JoinChains :
            raw_tokens = JoinStatement(js) =>
                /\ pc = "returned"
                /\ expressions = <<LeftNestedJoin(js, Len(js))>>

JoinsLeftNestedWitness ==
    /\ pc = "returned"
    /\ raw_tokens = JoinStatement(<< <<<<Kw("JOIN")>>, <<>>>>, <<<<Kw("JOIN")>>, <<>>>> >>)
    /\ expressions[1].type = "Join"
    /\ expressions[1].this = Table("c")
    /\ expressions[1].expression.type = "Join"
    /\ expressions[1].expression.this = Table("b")
    /\ expressions[1].expression.expression.type = "From"

\* C8: once split, no chunk begins with a semicolon, every chunk but the last
\* ends with one, and an input ending in a semicolon leaves a last chunk empty.
TerminatorClosesChunk ==
    pc = "chunks" =>
        /\ \A c \in 1..Len(_chunks) :
              _chunks[c] # <<>> => _chunks[c][1].token_type # "SEMICOLON"
        /\ \A c \in 1..(Len(_chunks) - 1) :
              /\ _chunks[c] # <<>>
              /\ _chunks[c][Len(_chunks[c])].token_type = "SEMICOLON"
        /\ (raw_tokens # <<>> /\ raw_tokens[Len(raw_tokens)].token_type = "SEMICOLON")
              => _chunks[Len(_chunks)] = <<>>

\* C9: a select-pipeline stage that returns its input node unchanged leaves the
\* cursor where it was when the stage was entered.
StageNoOpKeepsCursor ==
    \A j \in 1..Len(log) :
        (log[j].ev = "stage" /\ log[j].ok) => log[j].to = log[j].at

\* The cursor history of the chunk being parsed: a match moves the cursor by one
\* on success and not at all on failure, the cursor never moves otherwise, never
\* back and never past the end, and every loop iteration and recursive re-entry
\* comes after a successful match made since the loop test or the activation began.
CursorDiscipline ==
    /\ 0 <= _index /\ _index <= Len(_tokens)
    /\ \A j \in 1..Len(log) :
          /\ 0 <= log[j].at /\ log[j].at <= log[j].to /\ log[j].to <= Len(_tokens)
          /\ log[j].ev = "match" =>
                /\ log[j].to = (IF log[j].ok THEN log[j].at + 1 ELSE log[j].at)
                /\ log[j].at = (IF j = 1 THEN 0 ELSE log[j - 1].to)
          /\ j > 1 => log[j - 1].to <= log[j].to
          /\ log[j].ev \in {"iter", "reenter"} =>
                /\ log[j].at < log[j].to
                /\ \E i \in 1..(j - 1) :
                      log[i].ev = "match" /\ log[i].ok /\ log[i].at >= log[j].at

\* What is left of the call: the phase of parse(), then the iterations left in it.
Phase == CASE pc = "idle" -> 3 [] pc = "split" -> 2 [] pc \in {"chunks", "statement"} -> 1
           [] OTHER -> 0

Left ==
    CASE pc = "split" -> Len(raw_tokens) + 1 - k
      [] pc = "chunks" -> 2 * (Len(_chunks) + 1 - k)
      [] pc = "statement" -> 2 * (Len(_chunks) + 1 - k) - 1
      [] OTHER -> 0

Progress == Phase' < Phase \/ (Phase' = Phase /\ Left' < Left /\ Left' >= 0)

\* C10: parse returns or raises on every input: every step of the call leaves
\* strictly less to do, a call that has not returned or raised is at a step of
\* parse(), and the cursor keeps its discipline while a chunk is parsed.
TerminatesWithoutBacktracking ==
    /\ [](CursorDiscipline /\ (Done \/ pc \in {"idle", "split", "chunks", "statement"}))
    /\ [][Progress]_vars

TerminatesWitness ==
    /\ pc = "returned"
    /\ \E j \in 1..Len(log) : log[j].ev = "iter"
    /\ \E j \in 1..Len(log) : log[j].ev = "reenter"
    /\ \E j \in 1..Len(log) : log[j].ev = "match" /\ ~log[j].ok
    /\ _index = Len(_tokens) /\ _index >= 3

====
